---------------------------- MODULE Spec2Model ----------------------------
(***************************************************************************)
(* Remembrall: a WhatsApp task manager on top of a Notion database.        *)
(*                                                                         *)
(* The module models                                                       *)
(*   - the task store as the code uses it (src/notion.py),                 *)
(*   - the phone directory storage.pkl (src/storage.py),                   *)
(*   - the webhook commands add / complete / edit (src/main.py),           *)
(*   - the command handler whatsapp_webhook with its parsers, called on    *)
(*     one message (src/main.py, src/whatsapp.py),                         *)
(*   - the reminder scanner thread check_and_send_reminders and the        *)
(*     recurrence code get_next_reminder_date / process_due_tasks          *)
(*     (src/reminders.py).                                                 *)
(*                                                                         *)
(* Time is counted in clock units; ClockResolution units make one minute.  *)
(***************************************************************************)
EXTENDS Integers, Sequences, FiniteSets, TLC

VARIABLES
    pages,           \* the Notion database: sequence of pages, in query order
    directory,       \* storage.pkl: task name -> phone number (or None)
    sent_reminders,  \* reminders.sent_reminders: set of <<name, phase>>
    outbox,          \* every client.messages.create call of the scanner, in order
    now,             \* `now` of the scanner's last tick (the wall clock read)
    pc,              \* the scanner thread: "sleep", "scan" or "dead"
    tasks,           \* `tasks` of the running tick (reminders.py line 36)
    idx,             \* position of the for loop in `tasks`
    cmds,            \* number of webhook commands handled so far
    arg,             \* argument of the last direct call of a function
    ret              \* its result

vars == <<pages, directory, sent_reminders, outbox, now, pc, tasks, idx,
          cmds, arg, ret>>

(***************************************************************************)
(* Bounds of the model.                                                    *)
(***************************************************************************)
ClockResolution == 2      \* clock units per minute (2: half minutes)
MaxStep == 3              \* the clock advances by 1..MaxStep units between ticks
Horizon == 6              \* the clock runs for Horizon units
MaxPages == 2             \* pages in the database
MaxCmds == 2              \* webhook commands that change the store

Names == {"A", "B"}
Phones == {"P1", "P2"}

\* Python's None, for the fields that hold a string.
None == "<None>"

(***************************************************************************)
(* Reminder strings and datetime values.                                   *)
(*                                                                         *)
(* A reminder string is a record: form "none" is None, "text" a string     *)
(* that is no ISO-8601 date, "date" is YYYY-MM-DD, "datetime" is           *)
(* YYYY-MM-DDTHH:MM:SS followed by the suffix off ("" for no offset, "Z",  *)
(* "+00:00", "+05:30").  tod is the time of day in clock units.            *)
(***************************************************************************)
IsoStr(form, y, mo, d, tod, off) ==
    [form |-> form, y |-> y, mo |-> mo, d |-> d, tod |-> tod, off |-> off]

NoReminder == IsoStr("none", 0, 0, 0, 0, "")
BadText == IsoStr("text", 0, 0, 0, 0, "")

UnitsPerDay == 24 * 60 * ClockResolution

\* calendar of datetime: the proleptic Gregorian calendar
IsLeap(y) == (y % 4 = 0 /\ y % 100 # 0) \/ y % 400 = 0

DaysInMonth(y, mo) ==
    IF mo = 2 THEN (IF IsLeap(y) THEN 29 ELSE 28)
    ELSE IF mo \in {4, 6, 9, 11} THEN 30 ELSE 31

DaysBeforeYear(y) ==
    (y - 1) * 365 + ((y - 1) \div 4) - ((y - 1) \div 100) + ((y - 1) \div 400)

RECURSIVE DaysBeforeMonth(_, _)
DaysBeforeMonth(y, mo) ==
    IF mo = 1 THEN 0 ELSE DaysBeforeMonth(y, mo - 1) + DaysInMonth(y, mo - 1)

\* date.toordinal()
Ordinal(y, mo, d) == DaysBeforeYear(y) + DaysBeforeMonth(y, mo) + d

\* The origin of the model's clock: 2025-01-01T00:00:00 UTC.  Only
\* differences of instants matter.
OriginOrdinal == Ordinal(2025, 1, 1)

\* utcoffset of a suffix, in clock units
OffsetUnits(off) == IF off = "+05:30" THEN (5 * 60 + 30) * ClockResolution ELSE 0

\* A datetime value: ok = FALSE stands for the ValueError of the call that
\* should have produced it; aware = FALSE is a naive datetime (tzinfo None).
DateTime(y, mo, d, tod, aware, offs) ==
    [ok |-> TRUE, y |-> y, mo |-> mo, d |-> d, tod |-> tod,
     aware |-> aware, offs |-> offs]

ValueError ==
    [ok |-> FALSE, y |-> 0, mo |-> 0, d |-> 0, tod |-> 0,
     aware |-> FALSE, offs |-> 0]

\* datetime.fromisoformat(s.replace("Z", "+00:00"))
fromisoformat(s) ==
    CASE s.form = "datetime" ->
            DateTime(s.y, s.mo, s.d, s.tod, s.off # "", OffsetUnits(s.off))
      [] s.form = "date" -> DateTime(s.y, s.mo, s.d, 0, FALSE, 0)
      [] OTHER -> ValueError

\* dt.isoformat(): always the datetime form; the offset is written +HH:MM,
\* never "Z"
isoformat(dt) ==
    IsoStr("datetime", dt.y, dt.mo, dt.d, dt.tod,
           IF ~dt.aware THEN ""
           ELSE IF dt.offs = 0 THEN "+00:00" ELSE "+05:30")

\* The instant of an aware datetime, in clock units since the origin.
Instant(dt) ==
    (Ordinal(dt.y, dt.mo, dt.d) - OriginOrdinal) * UnitsPerDay + dt.tod - dt.offs

\* Mutant: the day number is increased and never carried into the month.
AddDaysNoCarry(dt, n) == [dt EXCEPT !.d = dt.d + n]

\* dt + timedelta(days = n): calendar arithmetic on the date, time unchanged
RECURSIVE AddDays(_, _)
AddDays(dt, n) ==
    IF n = 0 THEN dt
    ELSE IF dt.d < DaysInMonth(dt.y, dt.mo)
         THEN AddDays([dt EXCEPT !.d = dt.d + 1], n - 1)
    ELSE IF dt.mo < 12
         THEN AddDays([dt EXCEPT !.mo = dt.mo + 1, !.d = 1], n - 1)
    ELSE AddDays([dt EXCEPT !.y = dt.y + 1, !.mo = 1, !.d = 1], n - 1)

\* dt.replace(year = y, month = mo): ValueError when the day does not exist
Replace(dt, y, mo) ==
    IF dt.d > DaysInMonth(y, mo) THEN ValueError
    ELSE [dt EXCEPT !.y = y, !.mo = mo]

\* Result of a function that returns a string or raises.
Returned(s) == [raised |-> FALSE, value |-> s]
Raised == [raised |-> TRUE, value |-> NoReminder]

\* Mutant: the month is advanced with the day clamped to the month's length.
MonthlyClamped(dt) ==
    LET mo == IF dt.mo < 12 THEN dt.mo + 1 ELSE 1
        y == dt.y + (IF dt.mo = 12 THEN 1 ELSE 0)
        last == DaysInMonth(y, mo)
    IN  [dt EXCEPT !.y = y, !.mo = mo, !.d = IF dt.d > last THEN last ELSE dt.d]

\* reminders.py lines 88-92
Monthly(dt) ==
    LET mo == IF dt.mo < 12 THEN dt.mo + 1 ELSE 1
        y == dt.y + (IF dt.mo = 12 THEN 1 ELSE 0)
    IN  Replace(dt, y, mo)

\* reminders.get_next_reminder_date
get_next_reminder_date(current_date_str, recurrence) ==
    LET dt == fromisoformat(current_date_str)
        nxt == CASE recurrence = "Daily" -> AddDays(dt, 1)
                 [] recurrence = "Weekly" -> AddDays(dt, 7)
                 [] recurrence = "Monthly" -> Monthly(dt)
                 [] OTHER -> dt
    IN  IF ~dt.ok \/ ~nxt.ok THEN Raised ELSE Returned(isoformat(nxt))

(***************************************************************************)
(* The task store (src/notion.py).  A page is                              *)
(*   [name, user, done, reminder, recurrence, priority, tags, notes,       *)
(*    archived];                                                           *)
(* a query returns the pages that are not archived, in database order.     *)
(* The store returns a property as it was written.                         *)
(***************************************************************************)
Page(name, user, reminder, recurrence) ==
    [name |-> name, user |-> user, done |-> FALSE, reminder |-> reminder,
     recurrence |-> recurrence, priority |-> None, tags |-> <<>>,
     notes |-> "", archived |-> FALSE]

\* the dict list_tasks builds of a page (notion.py lines 148-157): the
\* User property is not part of it
Task(ps, i) ==
    [name |-> ps[i].name, done |-> ps[i].done, reminder |-> ps[i].reminder,
     priority |-> ps[i].priority, recurrence |-> ps[i].recurrence,
     tags |-> ps[i].tags, notes |-> ps[i].notes, page_id |-> i]

\* not x, for a string or None
Falsy(x) == x = None \/ x = ""

\* filter_done: None, "True" or "False"
ListMatch(p, user_phone, filter_done) ==
    /\ ~p.archived
    /\ Falsy(user_phone) \/ p.user = user_phone
    /\ filter_done = None \/ p.done = (filter_done = "True")
    /\ p.name # ""

RECURSIVE ListFrom(_, _, _, _)
ListFrom(ps, i, user_phone, filter_done) ==
    IF i > Len(ps) THEN <<>>
    ELSE (IF ListMatch(ps[i], user_phone, filter_done)
          THEN <<Task(ps, i)>> ELSE <<>>)
         \o ListFrom(ps, i + 1, user_phone, filter_done)

\* notion.list_tasks without sort_by_reminder; up = FALSE is a failed query
list_tasks(ps, user_phone, filter_done, up) ==
    IF up THEN ListFrom(ps, 1, user_phone, filter_done) ELSE <<>>

FindMatch(p, task_name, user_phone) ==
    /\ ~p.archived
    /\ p.name = task_name
    /\ Falsy(user_phone) \/ p.user = user_phone

\* notion._find_task_page_id: results[0]["id"], 0 for None
find_task_page_id(ps, task_name, user_phone) ==
    LET hits == {i \in 1..Len(ps) : FindMatch(ps[i], task_name, user_phone)}
    IN  IF hits = {} THEN 0 ELSE CHOOSE i \in hits : \A j \in hits : i <= j

\* notion._update_task_done_status: the store after the call
update_task_done_status(ps, task_name, done_status, user_phone, up) ==
    LET page_id == find_task_page_id(ps, task_name, user_phone)
    IN  IF up /\ page_id # 0 THEN [ps EXCEPT ![page_id].done = done_status]
        ELSE ps

\* notion.edit_task with new_task_name and new_reminder: the store after it
edit_task(ps, old_task_name, new_task_name, new_reminder, user_phone, up) ==
    LET page_id == find_task_page_id(ps, old_task_name, user_phone)
        setName == ~Falsy(new_task_name)
        setReminder == new_reminder.form # "none"
    IN  IF up /\ page_id # 0 /\ (setName \/ setReminder)
        THEN [ps EXCEPT
                ![page_id].name = IF setName THEN new_task_name ELSE @,
                ![page_id].reminder = IF setReminder THEN new_reminder ELSE @]
        ELSE ps

\* storage.get_phone_for_task
get_phone_for_task(dir, task_name) ==
    IF task_name \in DOMAIN dir THEN dir[task_name] ELSE None

\* storage.set_phone_for_task
set_phone_for_task(dir, task_name, phone_number) ==
    [n \in DOMAIN dir \cup {task_name} |->
        IF n = task_name THEN phone_number ELSE dir[n]]

(***************************************************************************)
(* Inputs of the model.  The scanner's clock starts at                     *)
(* 2025-01-31T00:00:00Z; the reminders of the commands lie in the minutes  *)
(* after it.                                                               *)
(***************************************************************************)
\* 2025-01-31T00:02:00Z
RemZ == IsoStr("datetime", 2025, 1, 31, 2 * ClockResolution, "Z")
\* 2025-01-31T05:33:00+05:30, which is 00:03:00 UTC
RemIST ==
    IsoStr("datetime", 2025, 1, 31, (5 * 60 + 33) * ClockResolution, "+05:30")
\* 2025-01-31T00:02:00, no offset
RemNaive == IsoStr("datetime", 2025, 1, 31, 2 * ClockResolution, "")
\* 2025-01-31
RemDate == IsoStr("date", 2025, 1, 31, 0, "")

RecurrenceInputs == {None, "Daily"}

\* who adds which task: P1 and P2 both use the name A
AddRequests == {<<"P1", "A">>, <<"P1", "B">>, <<"P2", "A">>}

\* the /reminder and /repeat values of an add
AddReminders ==
    {<<NoReminder, None>>, <<RemZ, None>>, <<RemZ, "Daily">>,
     <<RemDate, None>>, <<BadText, None>>}

\* the /reminder values of an edit (NoReminder: the flag is absent)
EditReminders == {NoReminder, RemIST}

StartTime == Instant(DateTime(2025, 1, 31, 0, TRUE, 0))

NoArg == [fn |-> "", date |-> NoReminder, recurrence |-> None, up |-> TRUE]
NoRet == [called |-> FALSE, raised |-> FALSE, value |-> NoReminder]

(***************************************************************************)
(* The webhook commands (src/main.py, whatsapp_webhook).  up = FALSE is a  *)
(* request to the store that fails.                                        *)
(***************************************************************************)
\* notion.add_task: the store after it (lines 23-63)
add_task_pages(ps, task_name, reminder_datetime, user_phone, recurrence, up) ==
    IF up
    THEN Append(ps, Page(task_name, user_phone, reminder_datetime, recurrence))
    ELSE ps

\* Mutant: the directory is written whether the store took the page or not.
add_task_directory_unchecked(dir, task_name, user_phone, up) ==
    IF ~Falsy(user_phone)
    THEN set_phone_for_task(dir, task_name, user_phone)
    ELSE dir

\* notion.add_task: the directory after it (lines 65-66)
add_task_directory(dir, task_name, user_phone, up) ==
    IF up /\ ~Falsy(user_phone)
    THEN set_phone_for_task(dir, task_name, user_phone)
    ELSE dir

\* main.py lines 267-291: add <task_text> /reminder .. /repeat ..
\* (cmds counts the commands that changed the store)
Add(from_number, task_text, reminder, recurrence, up) ==
    /\ cmds < MaxCmds
    /\ Len(pages) < MaxPages
    /\ pages' = add_task_pages(pages, task_text, reminder, from_number,
                               recurrence, up)
    /\ directory' = add_task_directory(directory, task_text, from_number, up)
    /\ cmds' = IF pages' # pages THEN cmds + 1 ELSE cmds
    /\ UNCHANGED <<sent_reminders, outbox, now, pc, tasks, idx, arg, ret>>

\* main.py lines 321-327: complete <task_name>
Complete(from_number, task_name, up) ==
    /\ cmds < MaxCmds
    /\ pages' = update_task_done_status(pages, task_name, TRUE, from_number, up)
    /\ cmds' = IF pages' # pages THEN cmds + 1 ELSE cmds
    /\ UNCHANGED <<directory, sent_reminders, outbox, now, pc, tasks, idx,
                   arg, ret>>

\* main.py lines 337-356: edit <old> /newname .. /reminder ..
Edit(from_number, old_task_name, new_task_name, new_reminder, up) ==
    /\ cmds < MaxCmds
    /\ pages' = edit_task(pages, old_task_name, new_task_name, new_reminder,
                          from_number, up)
    /\ cmds' = IF pages' # pages THEN cmds + 1 ELSE cmds
    /\ UNCHANGED <<directory, sent_reminders, outbox, now, pc, tasks, idx,
                   arg, ret>>

(***************************************************************************)
(* The scanner thread (src/reminders.py, check_and_send_reminders).        *)
(***************************************************************************)
\* timedelta(minutes = n) in clock units
Minutes(n) == n * ClockResolution

\* line 63: two_minutes_before <= now < two_minutes_before + 1 minute
BeforeWindow(reminder_time, t) ==
    LET two_minutes_before == reminder_time - Minutes(2)
    IN  two_minutes_before <= t /\ t < two_minutes_before + Minutes(1)

\* Mutant: the upper bound of the window is included.
DueWindowClosed(reminder_time, t) ==
    reminder_time <= t /\ t <= reminder_time + Minutes(1)

\* Mutant: the due window opens with the 2-minutes-before window.
DueWindowEarly(reminder_time, t) ==
    reminder_time - Minutes(2) <= t /\ t < reminder_time + Minutes(1)

\* line 70: reminder_time <= now < reminder_time + 1 minute
DueWindow(reminder_time, t) ==
    reminder_time <= t /\ t < reminder_time + Minutes(1)

\* Mutant: a done task is not passed over.
SkippedButNotDone(task, user_phone) ==
    \/ task.reminder.form = "none"
    \/ ~fromisoformat(task.reminder).ok
    \/ Falsy(user_phone)

\* lines 38-54: the task is passed over (done, no reminder, reminder not
\* parsed, no phone)
Skipped(task, user_phone) ==
    \/ task.done
    \/ task.reminder.form = "none"
    \/ ~fromisoformat(task.reminder).ok
    \/ Falsy(user_phone)

\* Mutant: the set is not consulted.
NotSentUnchecked(key, sent) == TRUE

\* lines 64, 71: key not in sent_reminders
NotSent(key, sent) == key \notin sent

\* Mutant: the key is recorded only when the message was delivered.
MarkSentIfDelivered(sent, key, delivered) ==
    IF delivered THEN sent \cup {key} ELSE sent

\* lines 67, 74: sent_reminders.add(key), whatever send_whatsapp_message did
MarkSent(sent, key, delivered) == sent \cup {key}

\* one call of send_whatsapp_message (lines 20-29), as the outbox records it;
\* page_id and at are not part of the message
Message(to, task, phase, at, delivered) ==
    [to |-> to, name |-> task.name, phase |-> phase, page_id |-> task.page_id,
     at |-> at, delivered |-> delivered]

\* Mutant: the key of a fired phase names the owner as well.
PhaseKeyedByOwner(st, inWindow, to, task, phase, at, delivered) ==
    LET key == <<to \o ":" \o task.name, phase>>
    IN  IF inWindow /\ NotSent(key, st.sent)
        THEN [sent |-> MarkSent(st.sent, key, delivered),
              out |-> Append(st.out, Message(to, task, phase, at, delivered))]
        ELSE st

\* lines 63-67 and 70-74: one phase of one task
Phase(st, inWindow, to, task, phase, at, delivered) ==
    IF inWindow /\ NotSent(<<task.name, phase>>, st.sent)
    THEN [sent |-> MarkSent(st.sent, <<task.name, phase>>, delivered),
          out |-> Append(st.out, Message(to, task, phase, at, delivered))]
    ELSE st

\* lines 33-36: a tick begins d clock units after the last one
TickStart(d, up) ==
    /\ pc = "sleep"
    /\ now + d <= StartTime + Horizon
    /\ now' = now + d
    /\ tasks' = list_tasks(pages, None, None, up)
    /\ idx' = 1
    /\ pc' = "scan"
    /\ UNCHANGED <<pages, directory, sent_reminders, outbox, cmds, arg, ret>>

\* lines 37-74: one iteration of the for loop.  Comparing a naive
\* reminder_time with the aware now (line 63) raises TypeError, which
\* nothing catches: the thread ends, and its locals with it.
ScanTask(delivered1, delivered2) ==
    /\ pc = "scan"
    /\ idx <= Len(tasks)
    /\ LET task == tasks[idx]
           user_phone == get_phone_for_task(directory, task.name)
           reminder_time == fromisoformat(task.reminder)
       IN  IF Skipped(task, user_phone)
           THEN /\ idx' = idx + 1
                /\ UNCHANGED <<pc, tasks, sent_reminders, outbox>>
           ELSE IF ~reminder_time.aware
           THEN /\ pc' = "dead"
                /\ tasks' = <<>>
                /\ idx' = 1
                /\ UNCHANGED <<sent_reminders, outbox>>
           ELSE LET r == Instant(reminder_time)
                    st0 == [sent |-> sent_reminders, out |-> outbox]
                    st1 == Phase(st0, BeforeWindow(r, now), user_phone, task,
                                 "2min_before", now, delivered1)
                    st2 == Phase(st1, DueWindow(r, now), user_phone, task,
                                 "due_now", now, delivered2)
                IN  /\ sent_reminders' = st2.sent
                    /\ outbox' = st2.out
                    /\ idx' = idx + 1
                    /\ UNCHANGED <<pc, tasks>>
    /\ UNCHANGED <<pages, directory, now, cmds, arg, ret>>

\* line 76: time.sleep(60); `tasks` and the loop position are dead until
\* the next tick assigns them
Sleep ==
    /\ pc = "scan"
    /\ idx > Len(tasks)
    /\ pc' = "sleep"
    /\ tasks' = <<>>
    /\ idx' = 1
    /\ UNCHANGED <<pages, directory, sent_reminders, outbox, now, cmds, arg,
                   ret>>

Init ==
    /\ pages = <<>>
    /\ directory = [n \in {} |-> None]
    /\ sent_reminders = {}
    /\ outbox = <<>>
    /\ now = StartTime
    /\ pc = "sleep"
    /\ tasks = <<>>
    /\ idx = 1
    /\ cmds = 0
    /\ arg = NoArg
    /\ ret = NoRet

Next ==
    \/ \E request \in AddRequests, flags \in AddReminders, up \in BOOLEAN :
          Add(request[1], request[2], flags[1], flags[2], up)
    \/ \E from_number \in Phones, task_name \in Names, up \in BOOLEAN :
          Complete(from_number, task_name, up)
    \/ \E from_number \in Phones, old_task_name \in Names,
          new_task_name \in Names \cup {None},
          new_reminder \in EditReminders, up \in BOOLEAN :
          Edit(from_number, old_task_name, new_task_name, new_reminder, up)
    \/ \E d \in 1..MaxStep, up \in BOOLEAN : TickStart(d, up)
    \/ \E delivered1 \in BOOLEAN, delivered2 \in BOOLEAN :
          ScanTask(delivered1, delivered2)
    \/ Sleep

Spec == Init /\ [][Next]_vars

(***************************************************************************)
(* Properties of the scanner.                                              *)
(***************************************************************************)
SameKey(m1, m2) == m1.name = m2.name /\ m1.phase = m2.phase

\* the messages a step appends to the outbox
NewMessages == {outbox'[k] : k \in (Len(outbox) + 1)..Len(outbox')}

\* a step of the scanner's for loop
ScanStep == pc = "scan" /\ idx <= Len(tasks) /\ (idx' # idx \/ pc' # pc)

\* the task at position i of the running tick can be notified at all
Eligible(i) ==
    /\ ~Skipped(tasks[i], get_phone_for_task(directory, tasks[i].name))
    /\ fromisoformat(tasks[i].reminder).aware

ReminderInstant(i) == Instant(fromisoformat(tasks[i].reminder))

\* C1: over any sequence of ticks, at most one notification is dispatched
\* per (task name, phase) key.
C1_AtMostOncePerKey ==
    \A i, j \in DOMAIN outbox : SameKey(outbox[i], outbox[j]) => i = j

\* A second tick inside the due window of a task has passed over it after an
\* earlier tick of the same window sent its notification.
C1_SecondTickInWindow ==
    /\ pc = "scan"
    /\ \E i \in 1..Len(tasks) :
          /\ i < idx
          /\ Eligible(i)
          /\ DueWindow(ReminderInstant(i), now)
          /\ \E k \in DOMAIN outbox :
                /\ outbox[k].name = tasks[i].name
                /\ outbox[k].phase = "due_now"
                /\ outbox[k].at < now
                /\ DueWindow(ReminderInstant(i), outbox[k].at)

\* C2: a notification is dispatched only by a tick whose current time lies
\* in the phase's half-open one-minute window: [reminder - 2 min,
\* reminder - 1 min) for 2min_before, [reminder, reminder + 1 min) for
\* due_now.  A tick at or after the upper bound sends nothing for it.
C2_OnlyInsideWindow ==
    [][\A m \in NewMessages :
          LET r == ReminderInstant(idx)
          IN  /\ m.at = now
              /\ m.phase = "2min_before" =>
                    r - 2 * ClockResolution <= now /\ now < r - ClockResolution
              /\ m.phase = "due_now" =>
                    r <= now /\ now < r + ClockResolution]_vars

\* A tick exactly at the upper bound of a task's due window has passed over
\* the task, and its due_now key is still unfired: the window was missed.
C2_MissedWindow ==
    /\ pc = "scan"
    /\ \E i \in 1..Len(tasks) :
          /\ i < idx
          /\ Eligible(i)
          /\ now = ReminderInstant(i) + Minutes(1)
          /\ <<tasks[i].name, "due_now">> \notin sent_reminders

\* C3: the scanning loop never stops because of one task: a task with a
\* malformed reminder (unparseable, date-only, without offset) is passed
\* over and the thread goes on.
C3_ScannerNeverStops == pc # "dead"

\* C4: when a dispatch fails, its key is recorded as fired all the same, the
\* loop goes on to the next task, and no later step dispatches that key
\* again.
C4_FailedSendIsFinal ==
    [][/\ \A m \in NewMessages :
             ~m.delivered =>
                /\ <<m.name, m.phase>> \in sent_reminders'
                /\ pc' = "scan" /\ idx' = idx + 1
       /\ \A k \in DOMAIN outbox :
             ~outbox[k].delivered =>
                \A m \in NewMessages : ~SameKey(m, outbox[k])]_vars

\* A failed dispatch of due_now, and a later tick inside the same window
\* that has passed over the task.
C4_FailedThenPassedOver ==
    /\ pc = "scan"
    /\ \E i \in 1..Len(tasks) :
          /\ i < idx
          /\ Eligible(i)
          /\ DueWindow(ReminderInstant(i), now)
          /\ \E k \in DOMAIN outbox :
                /\ outbox[k].name = tasks[i].name
                /\ outbox[k].phase = "due_now"
                /\ ~outbox[k].delivered
                /\ outbox[k].at < now

\* C5: a step of the loop on a task that is done (as the tick fetched it),
\* has no reminder, or whose name has no directory entry sends nothing and
\* records no key, whatever the time.
C5_SkippedTaskIsSilent ==
    [][(/\ ScanStep
        /\ \/ tasks[idx].done
           \/ tasks[idx].reminder.form = "none"
           \/ get_phone_for_task(directory, tasks[idx].name) = None)
       => /\ outbox' = outbox
          /\ sent_reminders' = sent_reminders]_vars

\* A done task with a phone and a reminder whose due window holds the
\* current time was passed over, and nothing was ever sent.
C5_DoneTaskPassedOver ==
    /\ pc = "scan"
    /\ outbox = <<>>
    /\ sent_reminders = {}
    /\ \E i \in 1..Len(tasks) :
          /\ i < idx
          /\ tasks[i].done
          /\ get_phone_for_task(directory, tasks[i].name) # None
          /\ fromisoformat(tasks[i].reminder).aware
          /\ DueWindow(ReminderInstant(i), now)

\* C6: every notification is addressed to the owner of the task it is
\* about (the User of its page).
C6_SentToOwner ==
    \A k \in DOMAIN outbox : outbox[k].to = pages[outbox[k].page_id].user

\* C7 (amended): the two phases of one task are never dispatched in the
\* same tick.
C7_PhasesNeverShareATick ==
    \A i, j \in DOMAIN outbox :
        (outbox[i].page_id = outbox[j].page_id /\ outbox[i].at = outbox[j].at)
            => i = j

\* Both phases of one task were dispatched, by different ticks.
C7_BothPhasesDispatched ==
    \E i, j \in DOMAIN outbox :
        /\ outbox[i].page_id = outbox[j].page_id
        /\ outbox[i].phase = "2min_before"
        /\ outbox[j].phase = "due_now"
        /\ outbox[i].at < outbox[j].at

\* C7 as claimed, for the short interval it speaks of: a tick that
\* dispatches due_now for a task whose 2min_before was not dispatched by an
\* earlier tick dispatches both phases.
C7_BothPhasesInOneTick ==
    \A j \in DOMAIN outbox :
        LET Before(i) == /\ outbox[i].page_id = outbox[j].page_id
                         /\ outbox[i].phase = "2min_before"
        IN  (/\ outbox[j].phase = "due_now"
             /\ ~\E i \in DOMAIN outbox : Before(i) /\ outbox[i].at < outbox[j].at)
            => \E i \in DOMAIN outbox : Before(i) /\ outbox[i].at = outbox[j].at

\* C8: when the scanner dispatches due_now for a task with a recurrence,
\* the step overwrites the task's reminder in the store with a later one.
C8_FiringAdvancesReminder ==
    [][\A m \in NewMessages :
          (m.phase = "due_now" /\ ~Falsy(tasks[idx].recurrence)) =>
             LET next == fromisoformat(pages'[m.page_id].reminder)
             IN  /\ next.ok /\ next.aware
                 /\ Instant(next) > ReminderInstant(idx)]_vars

(***************************************************************************)
(* get_next_reminder_date, called on its own: Init draws the arguments,    *)
(* the action applies the function.                                        *)
(***************************************************************************)
DateYears == {2024, 2025}
DateDays == {1, 15, 28, 29, 30, 31}
\* 00:00:00 and 10:00:00
DateTimes == {0, 10 * 60 * ClockResolution}
DateOffsets == {"", "Z", "+00:00", "+05:30"}

ValidDates ==
    {c \in DateYears \X (1..12) \X DateDays : c[3] <= DaysInMonth(c[1], c[2])}

DateInputs ==
    {IsoStr("datetime", c[1], c[2], c[3], tod, off) :
        c \in ValidDates, tod \in DateTimes, off \in DateOffsets}
    \cup {IsoStr("date", c[1], c[2], c[3], 0, "") : c \in ValidDates}
    \cup {BadText}

RecurrenceValues == {"Daily", "Weekly", "Monthly", "None", None}

InitDate ==
    /\ pages = <<>>
    /\ directory = [n \in {} |-> None]
    /\ sent_reminders = {}
    /\ outbox = <<>>
    /\ now = StartTime
    /\ pc = "sleep"
    /\ tasks = <<>>
    /\ idx = 1
    /\ cmds = 0
    /\ arg \in [fn : {"get_next_reminder_date"}, date : DateInputs,
                recurrence : RecurrenceValues, up : {TRUE}]
    /\ ret = NoRet

GetNextReminderDate ==
    /\ arg.fn = "get_next_reminder_date"
    /\ ~ret.called
    /\ LET r == get_next_reminder_date(arg.date, arg.recurrence)
       IN  ret' = [called |-> TRUE, raised |-> r.raised, value |-> r.value]
    /\ UNCHANGED <<pages, directory, sent_reminders, outbox, now, pc, tasks,
                   idx, cmds, arg>>

NextDate == GetNextReminderDate

SpecDate == InitDate /\ [][NextDate]_vars

\* the month after mo, and its year
NextMonth(mo) == IF mo = 12 THEN 1 ELSE mo + 1
NextMonthYear(y, mo) == IF mo = 12 THEN y + 1 ELSE y

\* the call was Monthly on a date whose day the following month lacks
MonthEndCall ==
    /\ ret.called
    /\ arg.recurrence = "Monthly"
    /\ arg.date.form \in {"datetime", "date"}
    /\ arg.date.d >
          DaysInMonth(NextMonthYear(arg.date.y, arg.date.mo),
                      NextMonth(arg.date.mo))

\* C10 (amended): Monthly applies no end-of-month clamping: on a date whose
\* day the following month lacks, get_next_reminder_date raises and returns
\* no timestamp.
C10_MonthEndRaises == MonthEndCall => ret.raised

\* get_next_reminder_date("2025-01-31T10:00:00+00:00", "Monthly") raised.
C10_Jan31Raised ==
    /\ ret.called
    /\ ret.raised
    /\ arg.recurrence = "Monthly"
    /\ arg.date = IsoStr("datetime", 2025, 1, 31, 10 * 60 * ClockResolution,
                         "+00:00")

\* C10 as claimed: on such a date the function still returns a timestamp,
\* with the same day of the month and month + 1.
C10_MonthEndReturnsSameDay ==
    MonthEndCall =>
        /\ ~ret.raised
        /\ ret.value.form = "datetime"
        /\ ret.value.d = arg.date.d
        /\ ret.value.mo = NextMonth(arg.date.mo)
        /\ ret.value.y = NextMonthYear(arg.date.y, arg.date.mo)

\* the call was made on a valid date and, for Monthly, the day exists in
\* the following month
ValidCall ==
    /\ ret.called
    /\ arg.date.form \in {"datetime", "date"}
    /\ ~MonthEndCall

\* the calendar date with ordinal n, looked up in the years y and y + 1
DateOfOrdinal(n, y) ==
    CHOOSE c \in {y, y + 1} \X (1..12) \X (1..31) :
        c[3] <= DaysInMonth(c[1], c[2]) /\ Ordinal(c[1], c[2], c[3]) = n

\* the reference: the date the recurrence asks for
ReferenceDate ==
    LET y == arg.date.y
        mo == arg.date.mo
        d == arg.date.d
        n == Ordinal(y, mo, d)
    IN  CASE arg.recurrence = "Daily" -> DateOfOrdinal(n + 1, y)
          [] arg.recurrence = "Weekly" -> DateOfOrdinal(n + 7, y)
          [] arg.recurrence = "Monthly" ->
                <<NextMonthYear(y, mo), NextMonth(mo), d>>
          [] OTHER -> <<y, mo, d>>

\* C11: on every valid date whose day exists in the target month,
\* get_next_reminder_date returns the reference: Daily the date + 1 calendar
\* day, Weekly + 7 days, Monthly the same day in month + 1 (December rolls
\* over to January of year + 1), any other recurrence the input date; the
\* time of day and the offset are those of the input.
C11_NextIsReference ==
    ValidCall =>
        /\ ~ret.raised
        /\ LET next == fromisoformat(ret.value)
                given == fromisoformat(arg.date)
           IN  /\ next.ok
               /\ <<next.y, next.mo, next.d>> = ReferenceDate
               /\ next.tod = given.tod
               /\ next.aware = given.aware
               /\ next.offs = given.offs

\* Calls that cross a month or a year were answered: Daily on the last day
\* of February 2024, Weekly on 2025-12-28, Monthly on 2025-12-15.
C11_CarriesAnswered ==
    /\ ret.called
    /\ ~ret.raised
    /\ \/ /\ arg.recurrence = "Daily"
          /\ <<arg.date.y, arg.date.mo, arg.date.d>> = <<2024, 2, 29>>
          /\ <<ret.value.y, ret.value.mo, ret.value.d>> = <<2024, 3, 1>>
       \/ /\ arg.recurrence = "Weekly"
          /\ <<arg.date.y, arg.date.mo, arg.date.d>> = <<2025, 12, 28>>
          /\ <<ret.value.y, ret.value.mo, ret.value.d>> = <<2026, 1, 4>>
       \/ /\ arg.recurrence = "Monthly"
          /\ <<arg.date.y, arg.date.mo, arg.date.d>> = <<2025, 12, 15>>
          /\ <<ret.value.y, ret.value.mo, ret.value.d>> = <<2026, 1, 15>>

(***************************************************************************)
(* process_due_tasks (src/reminders.py lines 95-111).  Nothing in the      *)
(* repository calls it; it is modelled as a call of its own on a store     *)
(* that Init draws.                                                        *)
(***************************************************************************)
\* t.get("user_phone"): the dicts of list_tasks have no such key
TaskUserPhone(task) == None

\* the outcome of the loop: the store, and whether an exception left it
PassResult(ps, raised) == [pages |-> ps, raised |-> raised]

\* lines 98-111 from position i of the snapshot ts on, at time t.  Parsing
\* (line 100), the comparison of a naive reminder with the aware now (line
\* 101) and get_next_reminder_date (line 106) may raise; nothing catches it.
RECURSIVE DuePass(_, _, _, _, _)
DuePass(ps, ts, i, t, up) ==
    IF i > Len(ts) THEN PassResult(ps, FALSE)
    ELSE
    LET task == ts[i]
        reminder_dt == fromisoformat(task.reminder)
        next_reminder == get_next_reminder_date(task.reminder, task.recurrence)
        edited == edit_task(ps, task.name, None, next_reminder.value,
                            TaskUserPhone(task), up)
        Completed(qs) ==
            update_task_done_status(qs, task.name, TRUE, TaskUserPhone(task),
                                    up)
    IN  IF task.reminder.form = "none" THEN DuePass(ps, ts, i + 1, t, up)
        ELSE IF ~reminder_dt.ok \/ ~reminder_dt.aware
             THEN PassResult(ps, TRUE)
        ELSE IF ~(Instant(reminder_dt) <= t) THEN DuePass(ps, ts, i + 1, t, up)
        ELSE IF Falsy(task.recurrence)
             THEN DuePass(Completed(ps), ts, i + 1, t, up)
        ELSE IF next_reminder.raised THEN PassResult(ps, TRUE)
        ELSE DuePass(Completed(edited), ts, i + 1, t, up)

\* reminders.process_due_tasks
process_due_tasks(ps, t, up) ==
    DuePass(ps, list_tasks(ps, None, "False", up), 1, t, up)

DueReminders == {NoReminder, RemZ, RemIST, RemNaive}

DuePages ==
    [name : Names, user : Phones, done : BOOLEAN, reminder : DueReminders,
     recurrence : RecurrenceInputs, priority : {None}, tags : {<<>>},
     notes : {""}, archived : {FALSE}]

\* a name is unique per user (spec.md, Data model)
UniquePerOwner(ps) ==
    \A i, j \in DOMAIN ps :
        (ps[i].name = ps[j].name /\ ps[i].user = ps[j].user) => i = j

\* now lies between the instants of RemZ and RemIST
InitDue ==
    /\ pages \in UNION {[1..n -> DuePages] : n \in 1..MaxPages}
    /\ UniquePerOwner(pages)
    /\ directory = [n \in {} |-> None]
    /\ sent_reminders = {}
    /\ outbox = <<>>
    /\ now = Instant(fromisoformat(RemZ)) + 1
    /\ pc = "sleep"
    /\ tasks = <<>>
    /\ idx = 1
    /\ cmds = 0
    /\ arg \in [fn : {"process_due_tasks"}, date : {NoReminder},
                recurrence : {None}, up : BOOLEAN]
    /\ ret = NoRet

ProcessDueTasks ==
    /\ arg.fn = "process_due_tasks"
    /\ ~ret.called
    /\ LET r == process_due_tasks(pages, now, arg.up)
       IN  /\ pages' = r.pages
           /\ ret' = [called |-> TRUE, raised |-> r.raised,
                      value |-> NoReminder]
    /\ UNCHANGED <<directory, sent_reminders, outbox, now, pc, tasks, idx,
                   cmds, arg>>

NextDue == ProcessDueTasks

SpecDue == InitDue /\ [][NextDue]_vars

\* page i is a not-done task whose reminder is at or before now
IsDue(i) ==
    /\ ~pages[i].done
    /\ fromisoformat(pages[i].reminder).ok
    /\ fromisoformat(pages[i].reminder).aware
    /\ Instant(fromisoformat(pages[i].reminder)) <= now

\* C9: a pass of process_due_tasks that ends normally, with the store
\* answering, marks every due not-done task complete, overwrites the
\* reminder of exactly the due tasks that have a recurrence with
\* get_next_reminder_date(reminder, recurrence), and leaves every other
\* task unchanged.
C9_PassUpdatesExactlyDueTasks ==
    [][(ret'.called /\ ~ret.called /\ arg.up /\ ~ret'.raised) =>
        /\ Len(pages') = Len(pages)
        /\ \A i \in DOMAIN pages :
              IF IsDue(i)
              THEN pages'[i] =
                     [pages[i] EXCEPT
                        !.done = TRUE,
                        !.reminder =
                           IF Falsy(pages[i].recurrence) THEN @
                           ELSE get_next_reminder_date(
                                    @, pages[i].recurrence).value]
              ELSE pages'[i] = pages[i]]_vars

(***************************************************************************)
(* Text.  The messages of the webhook are strings; Python's str methods    *)
(* are computed character by character.                                    *)
(***************************************************************************)
UpperLetters == "ABCDEFGHIJKLMNOPQRSTUVWXYZ"
LowerLetters == "abcdefghijklmnopqrstuvwxyz"

Char(s, i) == SubSeq(s, i, i)

\* position of the character c in the string letters, 0 when it is not there
IndexIn(letters, c) ==
    LET at == {i \in 1..Len(letters) : Char(letters, i) = c}
    IN  IF at = {} THEN 0 ELSE CHOOSE i \in at : TRUE

\* the lower-case letter of every upper-case letter, and the reverse
ToLower ==
    [c \in {Char(UpperLetters, i) : i \in 1..Len(UpperLetters)} |->
        Char(LowerLetters, IndexIn(UpperLetters, c))]

ToUpper ==
    [c \in {Char(LowerLetters, i) : i \in 1..Len(LowerLetters)} |->
        Char(UpperLetters, IndexIn(LowerLetters, c))]

LowerChar(c) == IF c \in DOMAIN ToLower THEN ToLower[c] ELSE c

UpperChar(c) == IF c \in DOMAIN ToUpper THEN ToUpper[c] ELSE c

\* s.lower()
RECURSIVE Lower(_)
Lower(s) ==
    IF s = "" THEN ""
    ELSE LowerChar(Char(s, 1)) \o Lower(SubSeq(s, 2, Len(s)))

\* s.capitalize(): first character upper, the rest lower
Capitalize(s) ==
    IF s = "" THEN ""
    ELSE UpperChar(Char(s, 1)) \o Lower(SubSeq(s, 2, Len(s)))

\* s.strip()
Strip(s) ==
    LET inked == {i \in 1..Len(s) : Char(s, i) # " "}
    IN  IF inked = {} THEN ""
        ELSE SubSeq(s, CHOOSE i \in inked : \A j \in inked : i <= j,
                       CHOOSE i \in inked : \A j \in inked : i >= j)

\* s.startswith(prefix)
StartsWith(s, prefix) ==
    Len(s) >= Len(prefix) /\ SubSeq(s, 1, Len(prefix)) = prefix

\* sub in s
Contains(s, sub) ==
    \E i \in 1..(Len(s) - Len(sub) + 1) : SubSeq(s, i, i + Len(sub) - 1) = sub

\* s.split(sep) for a separator of one character: the pieces, empty ones
\* included
RECURSIVE SplitOn(_, _)
SplitOn(s, sep) ==
    LET at == {i \in 1..Len(s) : Char(s, i) = sep}
    IN  IF at = {} THEN <<s>>
        ELSE LET i == CHOOSE k \in at : \A j \in at : k <= j
             IN  <<SubSeq(s, 1, i - 1)>> \o SplitOn(SubSeq(s, i + 1, Len(s)), sep)

\* s.split(): the words between runs of whitespace
Words(s) == SelectSeq(SplitOn(s, " "), LAMBDA w : w # "")

\* [f(x) for x in seq]
MapSeq(seq, f(_)) == [i \in DOMAIN seq |-> f(seq[i])]

\* [part.strip() for part in re.split(r'\s*/\s*', args)]
SlashParts(args) == MapSeq(SplitOn(args, "/"), Strip)

\* whatsapp.parse_command: the first word lower-cased, and what follows the
\* whitespace after it
parse_command(message) ==
    LET text == Strip(message)
        blanks == {i \in 1..Len(text) : Char(text, i) = " "}
        cut == IF blanks = {} THEN Len(text) + 1
               ELSE CHOOSE i \in blanks : \A j \in blanks : i <= j
    IN  [command |-> Lower(SubSeq(text, 1, cut - 1)),
         args |-> Strip(SubSeq(text, cut, Len(text)))]

(***************************************************************************)
(* The flag extractors (src/main.py, parse_add_args, parse_edit_args).     *)
(***************************************************************************)
\* None where a list is expected
NoneList == <<None>>

\* part[n:].strip()
After(part, n) == Strip(SubSeq(part, n + 1, Len(part)))

\* [t.strip() for t in text.split(",") if t.strip()]
TagList(text) ==
    SelectSeq(MapSeq(SplitOn(text, ","), Strip), LAMBDA t : t # "")

\* main.py lines 202-214: one pass of the loop of parse_add_args
AddFlag(flags, part) ==
    LET lowered == Lower(part)
    IN  CASE StartsWith(lowered, "reminder ") ->
                [flags EXCEPT !.reminder = After(part, 9)]
          [] StartsWith(lowered, "priority ") ->
                [flags EXCEPT !.priority = Capitalize(After(part, 9))]
          [] StartsWith(lowered, "recurrence ") ->
                [flags EXCEPT !.recurrence = Capitalize(After(part, 11))]
          [] StartsWith(lowered, "repeat ") ->
                [flags EXCEPT !.recurrence = Capitalize(After(part, 7))]
          [] StartsWith(lowered, "tags ") ->
                [flags EXCEPT !.tags = TagList(SubSeq(part, 6, Len(part)))]
          [] StartsWith(lowered, "notes ") ->
                [flags EXCEPT !.notes = After(part, 6)]
          [] OTHER -> flags

\* Mutant: the segments are applied from the last to the first, so that the
\* first occurrence of a flag wins.
RECURSIVE AddFlagsFirstWins(_, _, _)
AddFlagsFirstWins(parts, i, flags) ==
    IF i > Len(parts) THEN flags
    ELSE AddFlag(AddFlagsFirstWins(parts, i + 1, flags), parts[i])

\* main.py lines 201-214: for part in parts[1:], from position i on
RECURSIVE AddFlags(_, _, _)
AddFlags(parts, i, flags) ==
    IF i > Len(parts) THEN flags
    ELSE AddFlags(parts, i + 1, AddFlag(flags, parts[i]))

\* main.parse_add_args
parse_add_args(args) ==
    LET parts == SlashParts(args)
    IN  AddFlags(parts, 2,
                 [task_text |-> parts[1], reminder |-> None,
                  priority |-> None, recurrence |-> None,
                  tags |-> NoneList, notes |-> None])

\* main.py lines 232-247: one pass of the loop of parse_edit_args
EditFlag(updates, part) ==
    LET lowered == Lower(part)
    IN  CASE StartsWith(lowered, "newname ") ->
                [updates EXCEPT !.new_task_name = After(part, 8)]
          [] StartsWith(lowered, "reminder ") ->
                [updates EXCEPT !.new_reminder = After(part, 9)]
          [] StartsWith(lowered, "priority ") ->
                [updates EXCEPT !.new_priority = Capitalize(After(part, 9))]
          [] StartsWith(lowered, "recurrence ") ->
                [updates EXCEPT !.new_recurrence = Capitalize(After(part, 11))]
          [] StartsWith(lowered, "repeat ") ->
                [updates EXCEPT !.new_recurrence = Capitalize(After(part, 7))]
          [] StartsWith(lowered, "tags ") ->
                [updates EXCEPT !.new_tags = TagList(After(part, 5))]
          [] StartsWith(lowered, "notes ") ->
                [updates EXCEPT !.new_notes = After(part, 6)]
          [] OTHER -> updates

\* main.py lines 231-247: for part in parts[1:], from position i on
RECURSIVE EditFlags(_, _, _)
EditFlags(parts, i, updates) ==
    IF i > Len(parts) THEN updates
    ELSE EditFlags(parts, i + 1, EditFlag(updates, parts[i]))

\* main.parse_edit_args: old_task_name and the updates, in one record
parse_edit_args(args) ==
    LET parts == SlashParts(args)
    IN  EditFlags(parts, 2,
                  [old_task_name |-> parts[1], new_task_name |-> None,
                   new_reminder |-> None, new_priority |-> None,
                   new_recurrence |-> None, new_tags |-> NoneList,
                   new_notes |-> None])

(***************************************************************************)
(* The text of a reminder string.                                          *)
(***************************************************************************)
Digits == "0123456789"

Digit(n) == Char(Digits, n + 1)

\* f"{n:02d}" and f"{n:04d}"
Pad2(n) == Digit(n \div 10) \o Digit(n % 10)
Pad4(n) == Pad2(n \div 100) \o Pad2(n % 100)

\* HH:MM:SS of a time of day in clock units
ClockText(tod) ==
    Pad2(tod \div (60 * ClockResolution)) \o ":"
    \o Pad2((tod \div ClockResolution) % 60) \o ":"
    \o Pad2(((tod % ClockResolution) * 60) \div ClockResolution)

\* the characters of a reminder string
StartText(s) ==
    CASE s.form = "none" -> None
      [] s.form = "text" -> "tomorrow"
      [] s.form = "date" -> Pad4(s.y) \o "-" \o Pad2(s.mo) \o "-" \o Pad2(s.d)
      [] OTHER -> Pad4(s.y) \o "-" \o Pad2(s.mo) \o "-" \o Pad2(s.d) \o "T"
                  \o ClockText(s.tod) \o s.off

\* 2025-01-31T00:01:00Z and 2025-01-31T00:04:00Z
RemEarlyZ == IsoStr("datetime", 2025, 1, 31, ClockResolution, "Z")
RemLateZ == IsoStr("datetime", 2025, 1, 31, 4 * ClockResolution, "Z")

\* the reminder strings of the model
ReminderStrings == {RemZ, RemIST, RemNaive, RemDate, RemEarlyZ, RemLateZ}

\* the reminder string with the characters text
StartOf(text) ==
    IF text = None THEN NoReminder
    ELSE IF \E s \in ReminderStrings : StartText(s) = text
         THEN CHOOSE s \in ReminderStrings : StartText(s) = text
    ELSE BadText

\* the characters of the model, in the order of their code points
CodePoints == " +,-./0123456789:" \o UpperLetters \o LowerLetters

\* a < b for two str
RECURSIVE StrLess(_, _)
StrLess(a, b) ==
    IF b = "" THEN FALSE
    ELSE IF a = "" THEN TRUE
    ELSE IF Char(a, 1) = Char(b, 1)
         THEN StrLess(SubSeq(a, 2, Len(a)), SubSeq(b, 2, Len(b)))
    ELSE IndexIn(CodePoints, Char(a, 1)) < IndexIn(CodePoints, Char(b, 1))

(***************************************************************************)
(* The task store as the webhook uses it (src/notion.py).  Every request   *)
(* to Notion has an outcome: "ok", "rejected" (a status other than 200 or  *)
(* 201) or "raises" (requests raises, e.g. no connection).  env.query is   *)
(* the outcome of the queries of a command, env.writes[k] that of its k-th *)
(* create or update request, env.disk whether storage.pkl can be written.  *)
(* A call returns its value, the store and the directory after it, the     *)
(* requests it sent, and whether an exception left it.                     *)
(***************************************************************************)
Outcomes == {"ok", "rejected", "raises"}

Request(op, target, properties) ==
    [op |-> op, target |-> target, properties |-> properties]

Query == Request("query", 0, <<>>)

CallResult(value, ps, dir, requests, raised) ==
    [value |-> value, pages |-> ps, directory |-> dir,
     requests |-> requests, raised |-> raised]

\* not x, for a list or None
FalsyList(x) == x = NoneList \/ x = <<>>

\* notion.py lines 23-53: the properties of the page to create
NewProperties(task_name, reminder_datetime, user_phone, priority, recurrence, tags, notes) ==
    LET keys == {"Name", "Done"}
                \cup (IF Falsy(user_phone) THEN {} ELSE {"User"})
                \cup (IF Falsy(reminder_datetime) THEN {} ELSE {"Reminder"})
                \cup (IF Falsy(priority) THEN {} ELSE {"Priority"})
                \cup (IF Falsy(recurrence) THEN {} ELSE {"Recurrence"})
                \cup (IF FalsyList(tags) THEN {} ELSE {"Tags"})
                \cup (IF Falsy(notes) THEN {} ELSE {"Notes"})
    IN  [k \in keys |->
            CASE k = "Name" -> task_name
              [] k = "Done" -> FALSE
              [] k = "User" -> user_phone
              [] k = "Reminder" -> reminder_datetime
              [] k = "Priority" -> Capitalize(priority)
              [] k = "Recurrence" -> Capitalize(recurrence)
              [] k = "Tags" -> MapSeq(tags, Strip)
              [] OTHER -> notes]

\* the value of property k after a request that carries properties, old
\* when the request does not carry it
Written(properties, k, old) ==
    IF k \in DOMAIN properties THEN properties[k] ELSE old

\* the page Notion creates for a request
CreatedPage(properties) ==
    [name |-> properties["Name"],
     user |-> Written(properties, "User", None),
     done |-> FALSE,
     reminder |-> StartOf(Written(properties, "Reminder", None)),
     recurrence |-> Written(properties, "Recurrence", None),
     priority |-> Written(properties, "Priority", None),
     tags |-> Written(properties, "Tags", <<>>),
     notes |-> Written(properties, "Notes", ""),
     archived |-> FALSE]

\* Mutant: the request replaces the page, a property it does not carry is
\* cleared.
ReplacedPage(page, properties) ==
    [CreatedPage([k \in DOMAIN properties \cup {"Name"} |->
                     Written(properties, k, page.name)])
     EXCEPT !.user = page.user, !.done = Written(properties, "Done", page.done)]

\* the page after an update request: the properties it carries are
\* overwritten, the others stay
UpdatedPage(page, properties) ==
    [page EXCEPT
        !.name = Written(properties, "Name", @),
        !.done = Written(properties, "Done", @),
        !.reminder = IF "Reminder" \in DOMAIN properties
                     THEN StartOf(properties["Reminder"]) ELSE @,
        !.recurrence = Written(properties, "Recurrence", @),
        !.priority = Written(properties, "Priority", @),
        !.tags = Written(properties, "Tags", @),
        !.notes = Written(properties, "Notes", @)]

\* notion.add_task
notion_add_task(ps, dir, task_name, reminder_datetime, user_phone, priority, recurrence, tags, notes, env) ==
    LET properties == NewProperties(task_name, reminder_datetime, user_phone,
                                    priority, recurrence, tags, notes)
        success == env.writes[1] = "ok"
        created == IF success THEN Append(ps, CreatedPage(properties)) ELSE ps
        requests == <<Request("create", 0, properties)>>
    IN  IF success /\ ~Falsy(user_phone)
        THEN IF env.disk
             THEN CallResult(TRUE, created,
                             set_phone_for_task(dir, task_name, user_phone),
                             requests, FALSE)
             ELSE CallResult(FALSE, created, dir, requests, TRUE)
        ELSE CallResult(success, created, dir, requests, FALSE)

\* notion._find_task_page_id, asked of the store
notion_find_task_page_id(ps, task_name, user_phone, env) ==
    IF env.query = "ok" THEN find_task_page_id(ps, task_name, user_phone)
    ELSE 0

\* notion._update_task_done_status
notion_update_task_done_status(ps, dir, task_name, done_status, user_phone, env) ==
    LET page_id == notion_find_task_page_id(ps, task_name, user_phone, env)
        properties == [k \in {"Done"} |-> done_status]
        success == env.writes[1] = "ok"
    IN  IF page_id = 0 THEN CallResult(FALSE, ps, dir, <<Query>>, FALSE)
        ELSE CallResult(success,
                        IF success
                        THEN [ps EXCEPT ![page_id] = UpdatedPage(@, properties)]
                        ELSE ps,
                        dir,
                        <<Query, Request("update", page_id, properties)>>,
                        FALSE)

\* notion.py lines 251-275: updated_properties of edit_task
UpdatedProperties(updates) ==
    LET keys == (IF Falsy(updates.new_task_name) THEN {} ELSE {"Name"})
                \cup (IF Falsy(updates.new_reminder) THEN {} ELSE {"Reminder"})
                \cup (IF Falsy(updates.new_priority) THEN {} ELSE {"Priority"})
                \cup (IF Falsy(updates.new_recurrence) THEN {}
                      ELSE {"Recurrence"})
                \cup (IF FalsyList(updates.new_tags) THEN {} ELSE {"Tags"})
                \cup (IF Falsy(updates.new_notes) THEN {} ELSE {"Notes"})
    IN  [k \in keys |->
            CASE k = "Name" -> updates.new_task_name
              [] k = "Reminder" -> updates.new_reminder
              [] k = "Priority" -> Capitalize(updates.new_priority)
              [] k = "Recurrence" -> Capitalize(updates.new_recurrence)
              [] k = "Tags" -> MapSeq(updates.new_tags, Strip)
              [] OTHER -> updates.new_notes]

\* notion.edit_task, with all its arguments
notion_edit_task(ps, dir, old_task_name, updates, user_phone, env) ==
    LET page_id == notion_find_task_page_id(ps, old_task_name, user_phone, env)
        updated_properties == UpdatedProperties(updates)
        success == env.writes[1] = "ok"
    IN  IF page_id = 0 \/ DOMAIN updated_properties = {}
        THEN CallResult(FALSE, ps, dir, <<Query>>, FALSE)
        ELSE CallResult(success,
                        IF success
                        THEN [ps EXCEPT
                                ![page_id] = UpdatedPage(@, updated_properties)]
                        ELSE ps,
                        dir,
                        <<Query,
                          Request("update", page_id, updated_properties)>>,
                        FALSE)

\* notion.delete_task
notion_delete_task(ps, dir, task_name, user_phone, env) ==
    LET page_id == notion_find_task_page_id(ps, task_name, user_phone, env)
        success == env.writes[1] = "ok"
    IN  IF page_id = 0 THEN CallResult(FALSE, ps, dir, <<Query>>, FALSE)
        ELSE CallResult(success,
                        IF success THEN [ps EXCEPT ![page_id].archived = TRUE]
                        ELSE ps,
                        dir, <<Query, Request("archive", page_id, <<>>)>>,
                        FALSE)

\* Mutant: the query does not filter by User.
CompletedPagesOfAll(ps, user_phone) ==
    SelectSeq([i \in DOMAIN ps |-> i],
              LAMBDA i : ~ps[i].archived /\ ps[i].done)

\* notion.py lines 342-356: the pages the query of delete_all_completed_tasks
\* returns, in database order
CompletedPages(ps, user_phone) ==
    SelectSeq([i \in DOMAIN ps |-> i],
              LAMBDA i : /\ ~ps[i].archived
                         /\ ps[i].done
                         /\ Falsy(user_phone) \/ ps[i].user = user_phone)

\* notion.py lines 361-373: the loop from position k of results on.  A
\* rejected request clears success and the loop goes on; a request that
\* raises ends the loop in the except clause.
RECURSIVE ArchiveFrom(_, _, _, _, _, _)
ArchiveFrom(ps, results, k, success, requests, env) ==
    IF k > Len(results) THEN [value |-> success, pages |-> ps,
                              requests |-> requests]
    ELSE LET sent == Append(requests, Request("archive", results[k], <<>>))
         IN  CASE env.writes[k] = "ok" ->
                    ArchiveFrom([ps EXCEPT ![results[k]].archived = TRUE],
                                results, k + 1, success, sent, env)
               [] env.writes[k] = "rejected" ->
                    ArchiveFrom(ps, results, k + 1, FALSE, sent, env)
               [] OTHER -> [value |-> FALSE, pages |-> ps, requests |-> sent]

\* notion.delete_all_completed_tasks
notion_delete_all_completed_tasks(ps, dir, user_phone, env) ==
    LET results == CompletedPages(ps, user_phone)
        done == ArchiveFrom(ps, results, 1, TRUE, <<Query>>, env)
    IN  IF env.query # "ok" THEN CallResult(FALSE, ps, dir, <<Query>>, FALSE)
        ELSE CallResult(done.value, done.pages, dir, done.requests, FALSE)

\* notion.py line 160: the key of the sort
SortKey(task) ==
    IF task.reminder.form = "none" THEN "9999-12-31T23:59:59Z"
    ELSE StartText(task.reminder)

\* list.sort(key = SortKey), which is stable: the tasks from position i on
\* are inserted into sorted, each behind the tasks whose key is not greater
RECURSIVE SortFrom(_, _, _)
SortFrom(ts, i, sorted) ==
    IF i > Len(ts) THEN sorted
    ELSE LET k == Cardinality({j \in DOMAIN sorted :
                        ~StrLess(SortKey(ts[i]), SortKey(sorted[j]))})
         IN  SortFrom(ts, i + 1,
                      SubSeq(sorted, 1, k) \o <<ts[i]>>
                      \o SubSeq(sorted, k + 1, Len(sorted)))

\* notion.list_tasks, with sort_by_reminder
notion_list_tasks(ps, user_phone, filter_done, sort_by_reminder, env) ==
    LET found == list_tasks(ps, user_phone, filter_done, env.query = "ok")
    IN  IF sort_by_reminder THEN SortFrom(found, 1, <<>>) ELSE found

\* Mutant: the definition of search_tasks at notion.py lines 374-381, which
\* the second definition replaces: one keyword, looked for in the name and
\* in the notes.
MatchesNameOrNotes(task, keywords) ==
    \/ Contains(Lower(task.name), Lower(keywords))
    \/ Contains(Lower(task.notes), Lower(keywords))

\* notion.py lines 426-430: matches(task)
Matches(task, keywords) ==
    LET keywords_lower == MapSeq(Words(keywords), Lower)
        name_lower == Lower(task.name)
    IN  \A k \in DOMAIN keywords_lower : Contains(name_lower, keywords_lower[k])

\* notion.search_tasks (the definition at lines 420-432)
notion_search_tasks(ps, keywords, user_phone, env) ==
    LET all_tasks == notion_list_tasks(ps, user_phone, None, FALSE, env)
    IN  SelectSeq(all_tasks, LAMBDA t : Matches(t, keywords))

(***************************************************************************)
(* The command handler (src/main.py, whatsapp_webhook).  The replies are   *)
(* written without their emoji and without the examples that follow the    *)
(* first line.                                                             *)
(***************************************************************************)
AddUsage == "Please specify a task to add."
AddedWithReminder(reminder) == "Task added with reminder set at " \o reminder \o "!"
Added == "Task added to Notion!"
AddFailed == "Failed to add task. Please try again."
NoTasks == "No tasks found."
NoIncompleteTasks == "No incomplete tasks found!"
CompleteUsage == "Please specify a task to complete."
MarkedCompleted == "Task marked as completed!"
CompleteFailed == "Failed to mark task as completed."
IncompleteUsage == "Please specify a task to mark incomplete."
MarkedIncomplete == "Task marked as incomplete!"
UpdateFailed == "Failed to update task."
EditUsage == "Specify task edit details."
Edited == "Task edited successfully!"
EditFailed == "Failed to edit task."
DeleteUsage == "Please specify a task to delete."
Deleted == "Task deleted!"
DeleteFailed == "Failed to delete task."
AllCompletedDeleted == "All completed tasks deleted!"
DeleteCompletedFailed == "Failed to delete completed tasks."
SearchUsage == "Please provide a keyword to search tasks."
NoMatches == "No matching tasks found."
HelpText == "Notion WhatsApp Bot Commands:"
UnknownCommand == "Unknown command. Send 'help' for the list of commands."
SomethingWentWrong ==
    "Sorry, something went wrong. Please try again or contact support."

\* "\n".join(lines)
RECURSIVE Join(_)
Join(lines) ==
    IF lines = <<>> THEN ""
    ELSE IF Len(lines) = 1 THEN lines[1]
    ELSE lines[1] \o "\n" \o Join(Tail(lines))

\* str(n) for a count
CountText(n) == IF n < 10 THEN Digit(n) ELSE Pad2(n)

\* main.py lines 299-301 and 313-315: what follows the name in a line
Details(t) ==
    (IF t.reminder.form = "none" THEN ""
     ELSE " (reminder) " \o StartText(t.reminder))
    \o (IF Falsy(t.priority) THEN "" ELSE " (priority) " \o t.priority)
    \o (IF Falsy(t.recurrence) THEN "" ELSE " (repeat) " \o t.recurrence)

\* main.py lines 296-305
ListReply(ts) ==
    IF ts = <<>> THEN NoTasks
    ELSE "Your tasks:\n"
         \o Join(MapSeq(ts, LAMBDA t :
                (IF t.done THEN "(done) " ELSE "(open) ") \o t.name
                \o Details(t)))

\* main.py lines 310-319
IncompleteReply(ts) ==
    IF ts = <<>> THEN NoIncompleteTasks
    ELSE "Incomplete tasks:\n"
         \o Join(MapSeq(ts, LAMBDA t : "- " \o t.name \o Details(t)))

\* main.py lines 376-381
SearchReply(results) ==
    IF results = <<>> THEN NoMatches
    ELSE "Search results:\n" \o Join(MapSeq(results, LAMBDA t : "- " \o t.name))

\* main.py lines 388-391: the keys of priorities, in the order of insertion;
\* t.get('priority', 'None') is the value None of the key, printed as None
PriorityKeys(ts) ==
    SelectSeq([i \in DOMAIN ts |-> i],
              LAMBDA i : \A j \in 1..(i - 1) : ts[j].priority # ts[i].priority)

\* main.py lines 384-400
SummaryReply(ts) ==
    LET total == Len(ts)
        completed == Cardinality({i \in DOMAIN ts : ts[i].done})
        Count(p) == Cardinality({i \in DOMAIN ts : ts[i].priority = p})
    IN  "Task Summary:\n"
        \o "Total: " \o CountText(total) \o "\n"
        \o "Completed: " \o CountText(completed) \o "\n"
        \o "Incomplete: " \o CountText(total - completed) \o "\n"
        \o "By Priority:\n"
        \o Join(MapSeq(PriorityKeys(ts), LAMBDA i :
               "  - " \o (IF ts[i].priority = None THEN "None"
                          ELSE ts[i].priority)
               \o ": " \o CountText(Count(ts[i].priority))))

\* a branch that asks nothing of the store
Reply(text, ps, dir) == CallResult(text, ps, dir, <<>>, FALSE)

\* a branch that shows the tasks a query returned
Shown(text, ps, dir) == CallResult(text, ps, dir, <<Query>>, FALSE)

\* a branch that reports the success of a call of notion
Reported(call, ok, failed) ==
    [call EXCEPT !.value = IF call.value THEN ok ELSE failed]

\* main.py lines 267-421: the branches of the handler
Dispatch(command, args, from_number, ps, dir, env) ==
    LET sort_flag == Contains(Lower(args), "sort")
        name == Strip(args)
    IN  CASE command = "add" ->
                IF args = "" THEN Reply(AddUsage, ps, dir)
                ELSE LET a == parse_add_args(args)
                         added ==
                            notion_add_task(ps, dir, a.task_text, a.reminder,
                                            from_number, a.priority,
                                            a.recurrence, a.tags, a.notes, env)
                     IN  Reported(added,
                                  IF Falsy(a.reminder) THEN Added
                                  ELSE AddedWithReminder(a.reminder),
                                  AddFailed)
          [] command = "list" ->
                Shown(ListReply(notion_list_tasks(ps, from_number, None,
                                                  sort_flag, env)), ps, dir)
          [] command = "list-incomplete" ->
                Shown(IncompleteReply(notion_list_tasks(ps, from_number,
                                                        "False", sort_flag,
                                                        env)), ps, dir)
          [] command = "complete" ->
                IF name = "" THEN Reply(CompleteUsage, ps, dir)
                ELSE Reported(notion_update_task_done_status(
                                  ps, dir, name, TRUE, from_number, env),
                              MarkedCompleted, CompleteFailed)
          [] command = "mark-incomplete" ->
                IF name = "" THEN Reply(IncompleteUsage, ps, dir)
                ELSE Reported(notion_update_task_done_status(
                                  ps, dir, name, FALSE, from_number, env),
                              MarkedIncomplete, UpdateFailed)
          [] command = "edit" ->
                IF name = "" THEN Reply(EditUsage, ps, dir)
                ELSE LET e == parse_edit_args(args)
                     IN  Reported(notion_edit_task(ps, dir, e.old_task_name, e,
                                                   from_number, env),
                                  Edited, EditFailed)
          [] command = "delete" ->
                IF name = "" THEN Reply(DeleteUsage, ps, dir)
                ELSE Reported(notion_delete_task(ps, dir, name, from_number,
                                                 env),
                              Deleted, DeleteFailed)
          [] command = "delete-all-completed" ->
                Reported(notion_delete_all_completed_tasks(ps, dir,
                                                           from_number, env),
                         AllCompletedDeleted, DeleteCompletedFailed)
          [] command = "search" ->
                IF name = "" THEN Reply(SearchUsage, ps, dir)
                ELSE Shown(SearchReply(notion_search_tasks(ps, name,
                                                           from_number, env)),
                           ps, dir)
          [] command = "summary" ->
                Shown(SummaryReply(notion_list_tasks(ps, from_number, None,
                                                     FALSE, env)), ps, dir)
          [] command = "help" \/ command = "" -> Reply(HelpText, ps, dir)
          [] OTHER -> Reply(UnknownCommand, ps, dir)

\* Mutant: no except clause around the handler.
Unguarded(call) == call

\* main.py lines 254 and 430-434: an exception inside the handler becomes
\* the reply of the except clause
Guarded(call) ==
    IF call.raised
    THEN [call EXCEPT !.value = SomethingWentWrong, !.raised = FALSE]
    ELSE call

\* main.whatsapp_webhook
whatsapp_webhook(incoming_msg, from_number, ps, dir, env) ==
    LET parsed == parse_command(Strip(incoming_msg))
    IN  Guarded(Dispatch(parsed.command, parsed.args, from_number, ps, dir,
                         env))

(***************************************************************************)
(* The handler called on its own: Init draws the store, the message and    *)
(* the outcomes of the requests; the action handles the message.           *)
(***************************************************************************)
\* the sequences of at most n elements of S
SeqsUpTo(S, n) == UNION {[1..k -> S] : k \in 0..n}

\* s_1 \o s_2 \o ... for a sequence of strings
RECURSIVE Concat(_)
Concat(strings) ==
    IF strings = <<>> THEN "" ELSE strings[1] \o Concat(Tail(strings))

Envs(queries, n, disks) ==
    [query : queries, writes : [1..n -> Outcomes], disk : disks]

\* the store of the add and edit messages: P1's task A with every property
\* set, and P2's task A
StoredA ==
    [name |-> "A", user |-> "P1", done |-> FALSE, reminder |-> RemZ,
     recurrence |-> "Daily", priority |-> "Low", tags |-> <<"x">>,
     notes |-> "n", archived |-> FALSE]

CommandStores == {<<StoredA>>, <<Page("A", "P2", NoReminder, None), StoredA>>}

\* the flag segments of the add and edit messages
AddSegments ==
    {" /reminder 2025-01-31T00:02:00Z", " / Priority  HIGH", " /tags a, b",
     " /color red"}

EditSegments ==
    {" /newname B", " /reminder 2025-01-31T05:33:00+05:30", " /priority high",
     " /tags a, b", " /tags ,", " /notes", " /color red"}

MaxFlags == 2             \* flag segments in an add or edit message

AddMessages ==
    {"add" \o primary \o Concat(segments) :
        primary \in {"", " B"}, segments \in SeqsUpTo(AddSegments, MaxFlags)}

EditMessages ==
    {"edit" \o primary \o Concat(segments) :
        primary \in {"", " A"}, segments \in SeqsUpTo(EditSegments, MaxFlags)}

OtherMessages ==
    {"", "help", "HELP me", "frobnicate A", "remind me /reminder tomorrow",
     "addA", "ADD  C", "complete", "complete A", "mark-incomplete",
     "mark-incomplete A", "delete", "delete A", "delete Z",
     "delete-all-completed", "search", "search a", "summary", "list",
     "list-incomplete sort"}

InitCommands ==
    /\ pages \in CommandStores
    /\ arg \in [fn : {"whatsapp_webhook"},
                body : AddMessages \cup EditMessages \cup OtherMessages,
                from_number : {"P1"},
                env : Envs({"ok", "raises"}, 1, BOOLEAN)]

\* the stores of delete-all-completed: tasks of P1 and P2, done or not
DonePages ==
    {[Page("A", user, NoReminder, None) EXCEPT !.done = done] :
        user \in Phones, done \in BOOLEAN}

InitDeleteCompleted ==
    /\ pages \in SeqsUpTo(DonePages, MaxPages)
    /\ arg \in [fn : {"whatsapp_webhook"},
                body : {"delete-all-completed"},
                from_number : {"P1"},
                env : Envs({"ok", "rejected"}, MaxPages, {TRUE})]

\* the stores of search: names and notes that share words
SearchPages ==
    {Page(name, user, NoReminder, None) :
        name \in {"Buy milk", "Buy eggs", "MILK"}, user \in Phones}
    \cup {[Page("Buy eggs", "P1", NoReminder, None) EXCEPT !.notes = "milk"]}

SearchMessages ==
    {"search buy", "search  milk  BUY ", "search egg milk", "search y m",
     "Search ilk"}

InitSearch ==
    /\ pages \in SeqsUpTo(SearchPages, MaxPages)
    /\ arg \in [fn : {"whatsapp_webhook"},
                body : SearchMessages,
                from_number : {"P1"},
                env : Envs({"ok", "raises"}, 1, {TRUE})]

\* the stores of list sort: reminders in UTC and in +05:30, and none
SortPages ==
    {[Page("A", "P1", reminder, None) EXCEPT !.done = done] :
        reminder \in {NoReminder, RemZ, RemIST, RemLateZ}, done \in BOOLEAN}
    \cup {Page("B", "P2", RemEarlyZ, None)}

InitSort ==
    /\ pages \in SeqsUpTo(SortPages, MaxPages)
    /\ arg \in [fn : {"whatsapp_webhook"},
                body : {"list sort", "list-incomplete SORT", "list"},
                from_number : {"P1"},
                env : Envs({"ok", "rejected"}, 1, {TRUE})]

InitWebhook ==
    /\ InitCommands \/ InitDeleteCompleted \/ InitSearch \/ InitSort
    /\ directory = [n \in {} |-> None]
    /\ sent_reminders = {}
    /\ outbox = <<>>
    /\ now = StartTime
    /\ pc = "sleep"
    /\ tasks = <<>>
    /\ idx = 1
    /\ cmds = 0
    /\ ret = [called |-> FALSE, raised |-> FALSE, value |-> "",
              requests |-> <<>>]

\* one inbound message is handled
Webhook ==
    /\ arg.fn = "whatsapp_webhook"
    /\ ~ret.called
    /\ LET r == whatsapp_webhook(arg.body, arg.from_number, pages, directory,
                                 arg.env)
       IN  /\ pages' = r.pages
           /\ directory' = r.directory
           /\ ret' = [called |-> TRUE, raised |-> r.raised, value |-> r.value,
                      requests |-> r.requests]
    /\ UNCHANGED <<sent_reminders, outbox, now, pc, tasks, idx, cmds, arg>>

NextWebhook == Webhook

SpecWebhook == InitWebhook /\ [][NextWebhook]_vars

(***************************************************************************)
(* Properties of the command handler.                                      *)
(***************************************************************************)
\* the verb of the handled message, and what follows it
Verb == parse_command(arg.body).command
Rest == parse_command(arg.body).args

\* the text before the first slash, trimmed
PrimaryValue == Strip(SplitOn(Rest, "/")[1])

\* the requests of the handled message that write to the store
WriteRequests == SelectSeq(ret.requests, LAMBDA r : r.op # "query")

\* C12: an add message whose primary value (the text before the first
\* slash, trimmed) is empty, flag segments or not, creates no task and is
\* answered with the usage message.
C12_EmptyPrimaryIsRefused ==
    (ret.called /\ Verb = "add" /\ PrimaryValue = "") =>
        /\ WriteRequests = <<>>
        /\ ret.value = AddUsage

\* the flag segments of the handled message: what follows each slash
Segments == Tail(SplitOn(Rest, "/"))

\* the page property a flag segment names, None when its first word is no
\* flag of edit or no value follows it
EditField(segment) ==
    LET words == Words(segment)
        flag == IF words = <<>> THEN "" ELSE Lower(words[1])
    IN  IF Len(words) < 2 THEN None
        ELSE CASE flag = "newname" -> "Name"
               [] flag = "reminder" -> "Reminder"
               [] flag = "priority" -> "Priority"
               [] flag \in {"recurrence", "repeat"} -> "Recurrence"
               [] flag = "tags" -> "Tags"
               [] flag = "notes" -> "Notes"
               [] OTHER -> None

\* a /tags segment that names no tag: only commas and blanks follow the flag
NamesNoTag(segment) ==
    /\ EditField(segment) = "Tags"
    /\ \A k \in 2..Len(Words(segment)) :
          \A i \in 1..Len(Words(segment)[k]) : Char(Words(segment)[k], i) = ","

\* the fields whose flags are present in the message
PresentFields == {EditField(Segments[k]) : k \in DOMAIN Segments} \ {None}

\* the last segment of the message whose flag names field
LastSegment(field) ==
    LET at == {k \in DOMAIN Segments : EditField(Segments[k]) = field}
    IN  Segments[CHOOSE k \in at : \A j \in at : k >= j]

\* the fields whose flags are present with a value to write
ValuedFields == {f \in PresentFields : ~NamesNoTag(LastSegment(f))}

\* the pages p and q agree on every field that is none of properties
AgreeOutside(p, q, properties) ==
    /\ p.user = q.user /\ p.done = q.done /\ p.archived = q.archived
    /\ "Name" \in properties \/ p.name = q.name
    /\ "Reminder" \in properties \/ p.reminder = q.reminder
    /\ "Priority" \in properties \/ p.priority = q.priority
    /\ "Recurrence" \in properties \/ p.recurrence = q.recurrence
    /\ "Tags" \in properties \/ p.tags = q.tags
    /\ "Notes" \in properties \/ p.notes = q.notes

\* a step that handles an edit message with a task name: the update carries
\* exactly fields and changes nothing else of the task; with no field, no
\* task of that name or a failing query, nothing is sent, the store is
\* unchanged and the reply reports failure
EditUpdates(fields) ==
    (~ret.called /\ ret'.called /\ Verb = "edit" /\ PrimaryValue # "") =>
        LET target == find_task_page_id(pages, PrimaryValue, arg.from_number)
            writes == WriteRequests'
        IN  IF fields = {} \/ target = 0 \/ arg.env.query # "ok"
            THEN /\ writes = <<>>
                 /\ pages' = pages
                 /\ ret'.value = EditFailed
            ELSE /\ Len(writes) = 1
                 /\ writes[1].op = "update"
                 /\ writes[1].target = target
                 /\ DOMAIN writes[1].properties = fields
                 /\ Len(pages') = Len(pages)
                 /\ \A i \in DOMAIN pages :
                       IF i = target
                       THEN AgreeOutside(pages[i], pages'[i], fields)
                       ELSE pages'[i] = pages[i]
                 /\ ret'.value = IF arg.env.writes[1] = "ok" THEN Edited
                                  ELSE EditFailed
                 /\ arg.env.writes[1] # "ok" => pages' = pages

\* C13 (amended): edit is a partial update: the update sent to the store
\* carries exactly the fields whose flags are present with a value to write
\* (a field whose last flag is a /tags that names no tag is not written) and
\* leaves every other field of the task unchanged; when no such flag is
\* present no update is sent, the task is unchanged and the reply reports
\* failure.
C13_EditWritesValuedFields == [][EditUpdates(ValuedFields)]_vars

\* "edit A /tags , /priority high" was answered with success: the priority
\* of P1's task A is High, its tags and its other fields are as before.
C13_PriorityEditedTagsKept ==
    /\ ret.called
    /\ arg.body = "edit A /tags , /priority high"
    /\ ret.value = Edited
    /\ \E i \in DOMAIN pages : pages[i] = [StoredA EXCEPT !.priority = "High"]

\* C13 as claimed: the update carries exactly the fields whose flags are
\* present in the command.
C13_EditWritesPresentFields == [][EditUpdates(PresentFields)]_vars

(***************************************************************************)
(* The flag extractors called on their own: Init draws a sequence of flag  *)
(* segments and writes the argument string, the actions parse it.          *)
(***************************************************************************)
MaxSegments == 3          \* flag segments of an argument string

\* a segment as typed, and the value the spec gives it (a list)
Segment(flag, value, means) == [flag |-> flag, value |-> value, means |-> means]

SegmentInputs ==
    {Segment("priority", "high", <<"High">>),
     Segment("PRIORITY", "lOW", <<"Low">>),
     Segment("repeat", "daily", <<"Daily">>),
     Segment("Recurrence", "WEEKLY", <<"Weekly">>),
     Segment("tags", "a, b,", <<"a", "b">>),
     Segment("reminder", "2025-01-31T00:02:00Z", <<"2025-01-31T00:02:00Z">>),
     Segment("notes", "x y", <<"x y">>),
     Segment("newname", "B", <<"B">>),
     Segment("color", "red", <<"red">>)}

\* the argument string of a primary value and segments
ArgsOf(primary, segments) ==
    primary \o Concat([k \in DOMAIN segments |->
                          " /" \o segments[k].flag \o " " \o segments[k].value])

InitParse ==
    /\ pages = <<>>
    /\ directory = [n \in {} |-> None]
    /\ sent_reminders = {}
    /\ outbox = <<>>
    /\ now = StartTime
    /\ pc = "sleep"
    /\ tasks = <<>>
    /\ idx = 1
    /\ cmds = 0
    /\ \E segments \in SeqsUpTo(SegmentInputs, MaxSegments) :
          arg = [fn |-> "parse", segments |-> segments,
                 args |-> ArgsOf("A", segments)]
    /\ ret = [called |-> FALSE, fn |-> "", value |-> <<>>]

ParseAddArgs ==
    /\ arg.fn = "parse"
    /\ ~ret.called
    /\ ret' = [called |-> TRUE, fn |-> "parse_add_args",
               value |-> parse_add_args(arg.args)]
    /\ UNCHANGED <<pages, directory, sent_reminders, outbox, now, pc, tasks,
                   idx, cmds, arg>>

ParseEditArgs ==
    /\ arg.fn = "parse"
    /\ ~ret.called
    /\ ret' = [called |-> TRUE, fn |-> "parse_edit_args",
               value |-> parse_edit_args(arg.args)]
    /\ UNCHANGED <<pages, directory, sent_reminders, outbox, now, pc, tasks,
                   idx, cmds, arg>>

NextParse == ParseAddArgs \/ ParseEditArgs

SpecParse == InitParse /\ [][NextParse]_vars

\* the flag a segment stands for: recurrence and repeat are one flag
FlagOf(segment) ==
    IF Lower(segment.flag) = "repeat" THEN "recurrence"
    ELSE Lower(segment.flag)

\* the value the called function extracted for a flag
Extracted(flag) ==
    IF ret.fn = "parse_add_args"
    THEN CASE flag = "reminder" -> ret.value.reminder
           [] flag = "priority" -> ret.value.priority
           [] flag = "recurrence" -> ret.value.recurrence
           [] flag = "tags" -> ret.value.tags
           [] OTHER -> ret.value.notes
    ELSE CASE flag = "newname" -> ret.value.new_task_name
           [] flag = "reminder" -> ret.value.new_reminder
           [] flag = "priority" -> ret.value.new_priority
           [] flag = "recurrence" -> ret.value.new_recurrence
           [] flag = "tags" -> ret.value.new_tags
           [] OTHER -> ret.value.new_notes

\* the flags of the called function
FlagsOfCall ==
    {"reminder", "priority", "recurrence", "tags", "notes"}
    \cup (IF ret.fn = "parse_edit_args" THEN {"newname"} ELSE {})

\* the value last-write-wins gives a flag: that of its last segment, the
\* absent sentinel when it has none
LastWins(flag) ==
    LET at == {k \in DOMAIN arg.segments : FlagOf(arg.segments[k]) = flag}
        last == arg.segments[CHOOSE k \in at : \A j \in at : k >= j]
    IN  IF at = {} THEN (IF flag = "tags" THEN NoneList ELSE None)
        ELSE IF flag = "tags" THEN last.means ELSE last.means[1]

\* the orders of the segments that keep the order of the segments of one flag
Reorderings ==
    {f \in [DOMAIN arg.segments -> DOMAIN arg.segments] :
        /\ \A a, b \in DOMAIN f : f[a] = f[b] => a = b
        /\ \A a, b \in DOMAIN f :
              (a < b /\ FlagOf(arg.segments[f[a]]) = FlagOf(arg.segments[f[b]]))
                 => f[a] < f[b]}

\* the called function, applied to the segments in the order f
Reparsed(f) ==
    LET args == ArgsOf("A", [k \in DOMAIN f |-> arg.segments[f[k]]])
    IN  IF ret.fn = "parse_add_args" THEN parse_add_args(args)
        ELSE parse_edit_args(args)

\* C14: flag extraction is last-write-wins and otherwise independent of the
\* order: each flag has the value of its last occurrence (recurrence and
\* repeat are one flag), a flag that does not occur stays at the absent
\* sentinel, and every reordering that keeps the order of the segments of
\* one flag gives the same result.
C14_LastWriteWins ==
    ret.called =>
        /\ \A flag \in FlagsOfCall : Extracted(flag) = LastWins(flag)
        /\ \A f \in Reorderings : Reparsed(f) = ret.value

\* "A /repeat daily /priority high /Recurrence WEEKLY" was parsed:
\* recurrence is Weekly, the value of the last of the two segments, and the
\* segments can be reordered.
C14_AliasOverwritten ==
    /\ ret.called
    /\ arg.args = "A /repeat daily /priority high /Recurrence WEEKLY"
    /\ Extracted("recurrence") = "Weekly"
    /\ Extracted("priority") = "High"
    /\ Cardinality(Reorderings) > 1

\* the completed tasks of the requesting owner, in database order
OwnCompleted ==
    SelectSeq([i \in DOMAIN pages |-> i],
              LAMBDA i : /\ pages[i].user = arg.from_number
                         /\ pages[i].done
                         /\ ~pages[i].archived)

\* the number of OwnCompleted up to and including the first whose archive
\* request raises
UntilRaise ==
    LET raising == {k \in DOMAIN OwnCompleted : arg.env.writes[k] = "raises"}
    IN  IF raising = {} THEN Len(OwnCompleted)
        ELSE CHOOSE k \in raising : \A j \in raising : k <= j

\* a step that handles delete-all-completed: an archive request is sent
\* for each of the first attempts tasks of OwnCompleted, those whose
\* request succeeds are archived, every other task is unchanged, and the
\* reply is success exactly when no request of OwnCompleted failed (none
\* at all included); when the query fails nothing is attempted
DeletesCompleted(attempts) ==
    (~ret.called /\ ret'.called /\ Verb = "delete-all-completed") =>
        LET attempted == IF arg.env.query = "ok"
                         THEN SubSeq(OwnCompleted, 1, attempts) ELSE <<>>
            Archived(i) == \E k \in DOMAIN attempted :
                              attempted[k] = i /\ arg.env.writes[k] = "ok"
        IN  /\ WriteRequests' =
                  [k \in DOMAIN attempted |->
                      Request("archive", attempted[k], <<>>)]
            /\ Len(pages') = Len(pages)
            /\ \A i \in DOMAIN pages :
                  pages'[i] = IF Archived(i)
                              THEN [pages[i] EXCEPT !.archived = TRUE]
                              ELSE pages[i]
            /\ ret'.value =
                  IF /\ arg.env.query = "ok"
                     /\ \A k \in DOMAIN OwnCompleted : arg.env.writes[k] = "ok"
                  THEN AllCompletedDeleted ELSE DeleteCompletedFailed

\* C15 (amended): delete-all-completed archives the requesting owner's
\* tasks with done = true and no other task; with zero completed tasks it
\* returns success; when an archive request is rejected it still attempts
\* the remaining ones and returns failure; when an archive request raises
\* it returns failure and the remaining tasks are not attempted.
C15_ArchivesUntilRaise == [][DeletesCompleted(UntilRaise)]_vars

\* The archive request of P1's first completed task was rejected, the
\* second task was archived all the same, and the reply is the failure.
C15_RejectedThenArchived ==
    /\ ret.called
    /\ arg.body = "delete-all-completed"
    /\ arg.env.writes = <<"rejected", "ok">>
    /\ ret.value = DeleteCompletedFailed
    /\ Len(pages) = 2
    /\ pages[1].user = "P1" /\ pages[1].done /\ ~pages[1].archived
    /\ pages[2].user = "P1" /\ pages[2].done /\ pages[2].archived

\* C15 as claimed: whatever fails, every completed task of the owner is
\* attempted.
C15_ArchivesAll == [][DeletesCompleted(Len(OwnCompleted))]_vars

\* the verbs the handler has a branch for (main.py lines 267-402); the
\* empty verb is answered by the help branch
KnownVerbs ==
    {"add", "list", "list-incomplete", "complete", "mark-incomplete", "edit",
     "delete", "delete-all-completed", "search", "summary", "help", ""}

\* C16: every inbound message, whatever the verb, the arguments and the
\* outcomes of the store (raised exceptions included), is answered with one
\* reply string and no exception leaves the handler; an unrecognized verb
\* sends no request to the store, changes nothing and is answered with the
\* unknown-command hint.
C16_AlwaysOneReply ==
    [][(~ret.called /\ ret'.called) =>
          /\ ~ret'.raised
          /\ ret'.value \in STRING
          /\ ret'.value # ""
          /\ Verb \notin KnownVerbs =>
                /\ ret'.requests = <<>>
                /\ pages' = pages
                /\ directory' = directory
                /\ ret'.value = UnknownCommand]_vars

\* The store created the page of "add B", saving the phone directory raised
\* inside the handler, and the reply is the text of the except clause.
C16_DiskFailureAnswered ==
    /\ ret.called
    /\ Verb = "add"
    /\ arg.env.writes[1] = "ok"
    /\ ~arg.env.disk
    /\ \E i \in DOMAIN pages : pages[i].name = "B" /\ pages[i].user = "P1"
    /\ "B" \notin DOMAIN directory
    /\ ~ret.raised
    /\ ret.value = SomethingWentWrong

\* word occurs somewhere in name, letter case apart
Occurs(word, name) ==
    \E i \in 1..(Len(name) - Len(word) + 1) :
        Lower(SubSeq(name, i, i + Len(word) - 1)) = Lower(word)

\* the tasks of the requesting owner whose name has every keyword of the
\* message, in the order of the store
NamedByAll ==
    LET keywords == Words(Rest)
    IN  SelectSeq(pages,
                  LAMBDA p : /\ p.user = arg.from_number
                             /\ ~p.archived
                             /\ p.name # ""
                             /\ \A k \in DOMAIN keywords :
                                   Occurs(keywords[k], p.name))

\* C17: search returns exactly the owner's tasks whose name contains every
\* whitespace-separated keyword as a case-insensitive substring, in the
\* order of the task list; a task matching some keywords only, or in its
\* notes only, is not returned.
C17_SearchIsAndOverNames ==
    (ret.called /\ Verb = "search" /\ Strip(Rest) # ""
        /\ arg.env.query = "ok") =>
        /\ ret.value = SearchReply(NamedByAll)
        /\ WriteRequests = <<>>

\* "search  milk  BUY " over P1's "Buy eggs" with the note "milk" and P1's
\* "Buy milk": the second only is returned.
C17_NotesAndPartialMatchLeftOut ==
    /\ ret.called
    /\ arg.body = "search  milk  BUY "
    /\ arg.env.query = "ok"
    /\ Len(pages) = 2
    /\ pages[1].name = "Buy eggs" /\ pages[1].notes = "milk"
    /\ pages[1].user = "P1"
    /\ pages[2].name = "Buy milk" /\ pages[2].user = "P1"
    /\ ret.value = "Search results:\n- Buy milk"

\* the tasks of the requesting owner, in the order of the store
OwnTasks ==
    SelectSeq(pages, LAMBDA p : /\ p.user = arg.from_number
                                /\ ~p.archived
                                /\ p.name # "")

\* the rearrangements of a sequence
Rearrangements(ts) ==
    {[i \in DOMAIN ts |-> ts[f[i]]] :
        f \in {g \in [DOMAIN ts -> DOMAIN ts] :
                  \A i, j \in DOMAIN ts : g[i] = g[j] => i = j}}

\* ascending by the instant of the reminder, the tasks without a reminder
\* behind all the others
Chronological(ts) ==
    \A i, j \in DOMAIN ts :
        i < j =>
            \/ ts[j].reminder.form = "none"
            \/ /\ ts[i].reminder.form # "none"
               /\ Instant(fromisoformat(ts[i].reminder))
                     <= Instant(fromisoformat(ts[j].reminder))

\* C18: list sort shows a permutation of the owner's tasks in ascending
\* order of the reminder timestamp, every task without a reminder behind
\* all the tasks that have one.
C18_SortedByTimestamp ==
    (ret.called /\ Verb = "list" /\ Contains(Lower(Rest), "sort")
        /\ arg.env.query = "ok") =>
        \E ts \in Rearrangements(OwnTasks) :
            /\ Chronological(ts)
            /\ ret.value = ListReply(ts)

(***************************************************************************)
(* Properties of the scanner's fired keys and of the phone directory.      *)
(***************************************************************************)
PhaseNames == {"2min_before", "due_now"}

\* C19: a fired key is a task name and a phase and nothing else, no step
\* removes a key, and no step sends a phase for a name whose key is already
\* fired, whatever happened to the tasks of that name since (reminder
\* edited to a later time, a new task of the same name).
C19_FiredKeysAreFinal ==
    [][/\ sent_reminders \subseteq sent_reminders'
       /\ sent_reminders' \subseteq Names \X PhaseNames
       /\ \A m \in NewMessages :
             /\ <<m.name, m.phase>> \notin sent_reminders
             /\ <<m.name, m.phase>> \in sent_reminders']_vars

\* 2min_before was sent for a name; the reminder of the task was then
\* edited to a later time, and a tick inside the 2-minutes-before window of
\* the new reminder has passed the task over.
C19_EditedReminderNotAnnounced ==
    /\ pc = "scan"
    /\ \E i \in 1..Len(tasks) :
          /\ i < idx
          /\ Eligible(i)
          /\ tasks[i].reminder = RemIST
          /\ BeforeWindow(ReminderInstant(i), now)
          /\ \E k \in DOMAIN outbox :
                /\ outbox[k].name = tasks[i].name
                /\ outbox[k].page_id = tasks[i].page_id
                /\ outbox[k].phase = "2min_before"
                /\ outbox[k].at < now
                /\ ~BeforeWindow(ReminderInstant(i), outbox[k].at)
          /\ \A k \in DOMAIN outbox :
                outbox[k].name = tasks[i].name => outbox[k].at < now

\* the page a step appends to the store
NewPage == pages'[Len(pages')]

\* C20: the phone directory is written by a successful add only, and what
\* is written is the owner's phone under the name of the new task; a failed
\* add, an edit (renames included) and every other step leave it unchanged,
\* and the scanner sends nothing for a task whose name has no entry.
C20_DirectoryWrittenByAddOnly ==
    [][/\ directory' # directory =>
             /\ Len(pages') = Len(pages) + 1
             /\ SubSeq(pages', 1, Len(pages)) = pages
             /\ ~Falsy(NewPage.user)
             /\ DOMAIN directory' = DOMAIN directory \cup {NewPage.name}
             /\ directory'[NewPage.name] = NewPage.user
             /\ \A n \in DOMAIN directory \ {NewPage.name} :
                   directory'[n] = directory[n]
       /\ \A m \in NewMessages :
             /\ m.name \in DOMAIN directory
             /\ m.to = directory[m.name]]_vars

\* A task was added as A and renamed B; B has no entry in the directory,
\* and a tick inside a window of its reminder has passed it over without a
\* message.
C20_RenamedTaskIsSilent ==
    /\ pc = "scan"
    /\ "A" \in DOMAIN directory
    /\ "B" \notin DOMAIN directory
    /\ outbox = <<>>
    /\ \E i \in 1..Len(tasks) :
          /\ i < idx
          /\ tasks[i].name = "B"
          /\ pages[tasks[i].page_id].name = "B"
          /\ ~tasks[i].done
          /\ fromisoformat(tasks[i].reminder).aware
          /\ \/ BeforeWindow(ReminderInstant(i), now)
             \/ DueWindow(ReminderInstant(i), now)

(***************************************************************************)
(* Add requests handled in parallel (src/notion.py add_task lines 56-66,   *)
(* src/storage.py).  Each request is a thread of control of its own; the   *)
(* statements of set_phone_for_task and save_data are its steps.  arg      *)
(* holds the requests, ret the position and the local `data` of each, and  *)
(* directory is the content of storage.pkl.                                *)
(***************************************************************************)
MaxRequests == 2          \* add requests in flight

EmptyData == [n \in {} |-> None]

\* what storage.pkl holds before the requests: nothing, or an older entry
StoredDirectories == {EmptyData, [n \in {"C"} |-> "P2"]}

AddCalls == [task_name : Names, user_phone : Phones]

\* data[key] = value
SetItem(data, key, value) ==
    [n \in DOMAIN data \cup {key} |-> IF n = key THEN value ELSE data[n]]

\* storage.load_data (lines 10-18): a file that is missing or that
\* pickle.load cannot read (an empty one, after open(.., "wb")) gives {}
load_data(file) == file

InitStorage ==
    /\ pages = <<>>
    /\ directory \in StoredDirectories
    /\ sent_reminders = {}
    /\ outbox = <<>>
    /\ now = StartTime
    /\ pc = "sleep"
    /\ tasks = <<>>
    /\ idx = 1
    /\ cmds = 0
    /\ arg \in [fn : {"add_task"}, calls : [1..MaxRequests -> AddCalls]]
    /\ ret = [r \in 1..MaxRequests |->
                 [at |-> "post", success |-> FALSE, data |-> EmptyData]]

\* the position of request r becomes at, its other locals as given
Goto(r, at, success, data) ==
    ret' = [ret EXCEPT ![r] = [at |-> at, success |-> success, data |-> data]]

\* notion.py lines 56-66: requests.post, and the test of line 65
Post(r, up) ==
    /\ ret[r].at = "post"
    /\ pages' = add_task_pages(pages, arg.calls[r].task_name, NoReminder,
                               arg.calls[r].user_phone, None, up)
    /\ Goto(r, IF up /\ ~Falsy(arg.calls[r].user_phone) THEN "load" ELSE "done",
            up, EmptyData)
    /\ UNCHANGED <<directory, sent_reminders, outbox, now, pc, tasks, idx,
                   cmds, arg>>

\* storage.py line 25: data = load_data()
Load(r) ==
    /\ ret[r].at = "load"
    /\ Goto(r, "modify", ret[r].success, load_data(directory))
    /\ UNCHANGED <<pages, directory, sent_reminders, outbox, now, pc, tasks,
                   idx, cmds, arg>>

\* storage.py line 26: data[task_name] = phone_number
Modify(r) ==
    /\ ret[r].at = "modify"
    /\ Goto(r, "open", ret[r].success,
            SetItem(ret[r].data, arg.calls[r].task_name,
                    arg.calls[r].user_phone))
    /\ UNCHANGED <<pages, directory, sent_reminders, outbox, now, pc, tasks,
                   idx, cmds, arg>>

\* storage.py line 7: open(STORAGE_FILE, "wb") empties the file
Open(r) ==
    /\ ret[r].at = "open"
    /\ directory' = EmptyData
    /\ Goto(r, "dump", ret[r].success, ret[r].data)
    /\ UNCHANGED <<pages, sent_reminders, outbox, now, pc, tasks, idx, cmds,
                   arg>>

\* storage.py line 8: pickle.dump(data, f), and the file is closed
Dump(r) ==
    /\ ret[r].at = "dump"
    /\ directory' = ret[r].data
    /\ Goto(r, "done", ret[r].success, ret[r].data)
    /\ UNCHANGED <<pages, sent_reminders, outbox, now, pc, tasks, idx, cmds,
                   arg>>

NextStorage ==
    \E r \in 1..MaxRequests :
        \/ \E up \in BOOLEAN : Post(r, up)
        \/ Load(r)
        \/ Modify(r)
        \/ Open(r)
        \/ Dump(r)

SpecStorage == InitStorage /\ [][NextStorage]_vars

\* request r has returned with success
Succeeded(r) == ret[r].at = "done" /\ ret[r].success

\* C21: when add requests for different task names run in parallel and
\* all have returned with success, the phone directory maps the name of
\* each to its phone, whatever the interleaving of their steps.
C21_NoEntryLost ==
    (/\ \A r \in 1..MaxRequests : Succeeded(r)
     /\ \A r, q \in 1..MaxRequests :
           arg.calls[r].task_name = arg.calls[q].task_name => r = q)
        => \A r \in 1..MaxRequests :
              /\ arg.calls[r].task_name \in DOMAIN directory
              /\ directory[arg.calls[r].task_name] = arg.calls[r].user_phone

=============================================================================
